---- MODULE Spec2Model ----
(***************************************************************************)
(* State-machine model of ArrayReadState (core/src/array/                  *)
(* array_read_state.cc): the dense multi-fragment read path.               *)
(*                                                                         *)
(* The array is one-dimensional (dim_num = 1), so a coordinate vector is   *)
(* one integer, cell order and tile order are the integer order, and a     *)
(* cell range is a pair of integers.  Array, ArraySchema and Fragment are  *)
(* collaborators whose code is not in array_read_state.cc; they are        *)
(* modelled from their documented interface (the operators marked          *)
(* "collaborator" below).                                                  *)
(***************************************************************************)
EXTENDS Integers, Sequences, FiniteSets, TLC

VARIABLES array, ars, fragments, mem, io, pc

vars == <<array, ars, fragments, mem, io, pc>>

(***************************************************************************)
(* Bounds of the model and the schema of the modelled array.               *)
(***************************************************************************)
NumTiles == 3          \* tiles of the array domain
Extent == 4            \* tile extent: cells per tile
DomLo == 1             \* low end of the array domain
MaxCapCells == 2       \* the caller's small buffers hold 1..MaxCapCells cells
CellSize == 4          \* bytes per cell of a fixed-sized attribute
AttrNum == 2           \* attribute_num: attributes 0..AttrNum-1, coordinates AttrNum

DomHi == DomLo + NumTiles * Extent - 1
Dom == DomLo..DomHi
NULL == -1             \* a null pointer (no coordinates, no size)
NULL_RANGE == <<>>     \* a null pointer to a range (a pair of coordinates)
Attrs == 0..(AttrNum - 1)
AttrIdx == 0..AttrNum

Min(S) == CHOOSE x \in S : \A y \in S : x <= y
Max(S) == CHOOSE x \in S : \A y \in S : x >= y
MaxOf(x, y) == IF x >= y THEN x ELSE y
MinOf(x, y) == IF x <= y THEN x ELSE y

(***************************************************************************)
(* ArraySchema (collaborator), for dim_num = 1.                            *)
(***************************************************************************)
cell_order_cmp(a, b) == IF a < b THEN -1 ELSE IF a > b THEN 1 ELSE 0
tile_order_cmp(a, b) == IF a < b THEN -1 ELSE IF a > b THEN 1 ELSE 0
get_next_cell_coords(c) == c + 1
get_previous_cell_coords(c) == c - 1
get_next_tile_coords(t) == t + 1
get_cell_pos(c) == c

\* C++ integer division truncates toward zero.
CDiv(x, y) == IF x >= 0 THEN x \div y ELSE -((-x) \div y)

(***************************************************************************)
(* Coord-range buffers: malloc and free of the 2*coords_size buffers that  *)
(* a FragmentCellRange owns.  live is the set of allocated buffers, dfree  *)
(* records a free of a buffer that is not live.                            *)
(***************************************************************************)
Malloc(m) == [m EXCEPT !.live = @ \cup {m.next}, !.next = @ + 1]
Free(m, b) ==
  IF b \in m.live THEN [m EXCEPT !.live = @ \ {b}]
  ELSE [m EXCEPT !.dfree = TRUE]

RECURSIVE FreeAll(_, _)
FreeAll(m, bs) ==
  IF bs = <<>> THEN m ELSE FreeAll(Free(m, Head(bs)), Tail(bs))

RECURSIVE SetToSeq(_)
SetToSeq(S) ==
  IF S = {} THEN <<>>
  ELSE LET x == CHOOSE y \in S : TRUE IN <<x>> \o SetToSeq(S \ {x})

BufsOf(rs) == [i \in 1..Len(rs) |-> rs[i].buf]

(***************************************************************************)
(* Fragment (collaborator): the static content of a fragment.  A fragment  *)
(* is [dense, cells]: the cells it stores, an interval for a dense one.    *)
(***************************************************************************)
FragIds(arr) == DOMAIN arr.fragments
PastEnd == DomHi + 1

coords_exist(arr, f, c) == c \in arr.fragments[f].cells

\* The first two stored coordinates at or after start (PastEnd when none).
get_first_two_coords(arr, f, start) ==
  LET after == {c \in arr.fragments[f].cells : c >= start}
      first == IF after = {} THEN PastEnd ELSE Min(after)
      rest  == {c \in after : c > first}
      second == IF rest = {} THEN PastEnd ELSE Min(rest)
  IN <<first, second>>

\* The cell positions of the stored cells of a sparse fragment in [lo, hi].
get_cell_pos_ranges_sparse(arr, f, tile_lo, lo, hi) ==
  LET cs == {c \in arr.fragments[f].cells : c >= lo /\ c <= hi}
      RECURSIVE Run(_)
      Run(S) == IF S = {} THEN <<>>
                ELSE LET c == Min(S)
                     IN <<[first |-> f, lo |-> c - tile_lo, hi |-> c - tile_lo]>>
                        \o Run(S \ {c})
  IN Run(cs)

(***************************************************************************)
(* SmallerFragmentCellRange: the comparator of the merge priority queue.   *)
(***************************************************************************)
\* A comparator that breaks ties the other way round: among equal first
\* endpoints the lowest fragment id would pop first.
SmallerLowestIdFirst(a, b) ==
  LET cmp == cell_order_cmp(a.lo, b.lo)
  IN IF cmp < 0 THEN FALSE
     ELSE IF cmp > 0 THEN TRUE
     ELSE a.first > b.first

SmallerFragmentCellRange(a, b) ==
  LET cmp == cell_order_cmp(a.lo, b.lo)
  IN IF cmp < 0 THEN FALSE
     ELSE IF cmp > 0 THEN TRUE
     ELSE a.first < b.first

\* pq.top(): an element that is smaller than no other element.
PqTop(pq) == CHOOSE t \in pq : \A y \in pq : ~SmallerFragmentCellRange(t, y)

(***************************************************************************)
(* compute_fragment_cell_pos_ranges: the per-tile merge.  A range is       *)
(* [first, lo, hi, buf]: the fragment id, the two range endpoints and the  *)
(* coord buffer that holds them.  The merge state is [pq, out, mem,        *)
(* status]; ub is the outcome of the run's undefined behaviour ("crash",   *)
(* "true", "false") and fault the fragment operation that fails.           *)
(***************************************************************************)
TileLo(t) == DomLo + t * Extent
TileEnd(t) == TileLo(t) + Extent - 1

\* Lines 313-355: discard or trim the older tops that start inside popped.
RECURSIVE DiscardTops(_, _, _)
DiscardTops(pq, popped, m) ==
  IF pq = {} THEN [pq |-> pq, mem |-> m]
  ELSE
    LET top == PqTop(pq)
    IN IF /\ top.first < popped.first
          /\ cell_order_cmp(top.lo, popped.lo) >= 0
          /\ cell_order_cmp(top.lo, popped.hi) <= 0
       THEN IF cell_order_cmp(top.hi, popped.hi) > 0
            THEN LET trimmed_top ==
                       [first |-> top.first,
                        lo |-> get_next_cell_coords(popped.hi),
                        hi |-> top.hi, buf |-> m.next]
                     pushed == pq \cup {trimmed_top}
                 IN DiscardTops(pushed \ {PqTop(pushed)}, popped, Malloc(m))
            ELSE DiscardTops(pq \ {PqTop(pq)}, popped, Free(m, top.buf))
       ELSE [pq |-> pq, mem |-> m]

\* Lines 357-394: trim popped before a newer top, re-queue what follows it.
TrimPopped(pq, popped, m, out) ==
  LET top == PqTop(pq)
      trim == /\ pq # {}
              /\ top.first > popped.first
              /\ cell_order_cmp(top.lo, popped.hi) <= 0
      extra == trim /\ cell_order_cmp(top.hi, popped.hi) < 0
      extra_popped == [first |-> popped.first,
                       lo |-> get_next_cell_coords(top.hi),
                       hi |-> popped.hi, buf |-> m.next]
      final == IF trim
               THEN [popped EXCEPT !.hi = get_previous_cell_coords(top.lo)]
               ELSE popped
  IN [pq |-> IF extra THEN pq \cup {extra_popped} ELSE pq,
      out |-> Append(out, final),
      mem |-> IF extra THEN Malloc(m) ELSE m,
      status |-> "run"]

\* Lines 415-428: the clean-up when get_first_two_coords fails.
ExpandFailed(pq, popped, m, out) ==
  LET unary_buf == m.next
      top == PqTop(pq)
      m1 == Free(Malloc(m), unary_buf)
      m2 == Free(m1, popped.buf)
      m3 == IF pq = {} THEN m2 ELSE Free(m2, top.buf)
      m4 == FreeAll(m3, BufsOf(SetToSeq(pq)))
      m5 == FreeAll(m4, BufsOf(out))
  IN [pq |-> {}, out |-> out, mem |-> m5, status |-> "err"]

\* Lines 402-450: expand a multi-cell sparse range that overlaps the top.
ExpandSparse(arr, tile_domain_end, pq, popped, m, out, fault) ==
  LET unary_buf == m.next
      m1 == Malloc(m)
      two == get_first_two_coords(arr, popped.first, popped.lo)
      unary == [first |-> popped.first, lo |-> two[1], hi |-> two[1],
                buf |-> unary_buf]
      rest == [popped EXCEPT !.lo = two[2]]
  IN IF fault = "get_first_two_coords" THEN ExpandFailed(pq, popped, m, out)
     ELSE IF cell_order_cmp(two[1], tile_domain_end) > 0
     THEN [pq |-> pq, out |-> out, mem |-> Free(m1, unary_buf),
           status |-> "run"]
     ELSE IF cell_order_cmp(two[2], tile_domain_end) > 0
     THEN [pq |-> pq \cup {unary}, out |-> out,
           mem |-> Free(m1, popped.buf), status |-> "run"]
     ELSE [pq |-> pq \cup {unary, rest}, out |-> out, mem |-> m1,
           status |-> "run"]

\* Lines 275-452: one iteration of the while loop over the queue.
MergeStep(arr, tile_domain_end, s, ub, fault) ==
  LET popped == PqTop(s.pq)
      pq == s.pq \ {popped}
      invalid == popped.first \notin FragIds(arr)
      dense == IF invalid THEN ub = "true"
               ELSE arr.fragments[popped.first].dense
      unary == popped.lo = popped.hi
      crash == [s EXCEPT !.status = "crash"]
      emit == [pq |-> pq, out |-> Append(s.out, popped), mem |-> s.mem,
               status |-> "run"]
  IN IF invalid /\ ub = "crash" THEN crash
     ELSE IF pq = {} /\ (dense \/ ~unary) THEN emit
     ELSE IF invalid /\ ~dense /\ unary THEN crash
     ELSE IF pq = {} /\ coords_exist(arr, popped.first, popped.lo) THEN emit
     ELSE IF dense \/ unary
     THEN IF ~dense /\ ~coords_exist(arr, popped.first, popped.lo)
          THEN [pq |-> pq, out |-> s.out, mem |-> Free(s.mem, popped.buf),
                status |-> "run"]
          ELSE LET d == DiscardTops(pq, popped, s.mem)
               IN TrimPopped(d.pq, popped, d.mem, s.out)
     ELSE IF pq # {} /\ cell_order_cmp(PqTop(pq).lo, popped.hi) > 0 THEN emit
     ELSE IF invalid THEN crash
     ELSE ExpandSparse(arr, tile_domain_end, pq, popped, s.mem, s.out, fault)

\* Lines 275-452: the while loop.  consulted is a history field of the
\* merge: the ids with which the iterations indexed the fragment list
\* (fragments[popped_fragment_i] at line 284 or 301 of every iteration).
RECURSIVE MergeLoop(_, _, _, _, _)
MergeLoop(arr, tile_domain_end, s, ub, fault) ==
  LET Consulted(n) ==
        [pq |-> n.pq, out |-> n.out, mem |-> n.mem, status |-> n.status,
         consulted |-> s.consulted \cup {PqTop(s.pq).first}]
  IN IF s.pq = {} \/ s.status # "run" THEN s
     ELSE MergeLoop(arr, tile_domain_end,
                    Consulted(MergeStep(arr, tile_domain_end, s, ub, fault)),
                    ub, fault)

\* Lines 457-497: convert the merged ranges to cell position ranges.
RECURSIVE ConvertRanges(_, _, _, _, _, _)
ConvertRanges(arr, tile_lo, rs, plan, m, fault) ==
  IF rs = <<>> THEN [status |-> "ok", plan |-> plan, mem |-> m]
  ELSE
    LET r == Head(rs)
    IN IF r.first = -1 \/ arr.fragments[r.first].dense
       THEN ConvertRanges(arr, tile_lo, Tail(rs),
              Append(plan, [first |-> r.first,
                            lo |-> get_cell_pos(r.lo - tile_lo),
                            hi |-> get_cell_pos(r.hi - tile_lo)]),
              Free(m, r.buf), fault)
       ELSE IF fault = "get_cell_pos_ranges_sparse"
       THEN [status |-> "err", plan |-> plan, mem |-> FreeAll(m, BufsOf(rs))]
       ELSE ConvertRanges(arr, tile_lo, Tail(rs),
              plan \o get_cell_pos_ranges_sparse(arr, r.first, tile_lo,
                                                 r.lo, r.hi),
              Free(m, r.buf), fault)

\* Lines 239-505.  unsorted is the sequence of input ranges.
compute_fragment_cell_pos_ranges(arr, tile, unsorted, m, ub, fault) ==
  LET Result(s, c) ==
        [status |-> c.status, plan |-> c.plan, mem |-> c.mem,
         consulted |-> s.consulted, pq |-> s.pq]
      Convert(s) ==
        IF s.status = "run"
        THEN Result(s, ConvertRanges(arr, TileLo(tile), s.out, <<>>, s.mem,
                                     fault))
        ELSE Result(s, [status |-> s.status, plan |-> <<>>, mem |-> s.mem])
  IN Convert(MergeLoop(arr, TileEnd(tile),
                       [pq |-> {unsorted[i] : i \in 1..Len(unsorted)},
                        out |-> <<>>, mem |-> m, status |-> "run",
                        consulted |-> {}],
                       ub, fault))

(***************************************************************************)
(* Fragment (collaborator): the read state of a fragment.  fetched counts  *)
(* the overlapping tiles brought by get_next_overlapping_tile_mult; per    *)
(* attribute, tile is the index of the overlapping tile being copied,      *)
(* offset the next cell position to copy in it, overflow the overflow flag.*)
(***************************************************************************)
RangeCells(arr, t) ==
  {c \in TileLo(t)..TileEnd(t) : c >= arr.range[1] /\ c <= arr.range[2]}

\* The tiles of fragment f that overlap the query range, in tile order.
RECURSIVE TilesFrom(_, _, _)
TilesFrom(arr, f, t) ==
  IF t >= NumTiles THEN <<>>
  ELSE (IF arr.fragments[f].cells \cap RangeCells(arr, t) # {}
        THEN <<t>> ELSE <<>>) \o TilesFrom(arr, f, t + 1)

FragTiles(arr, f) == TilesFrom(arr, f, 0)

get_next_overlapping_tile_mult(arr, fs, f) ==
  [fs EXCEPT ![f].fetched = MinOf(@ + 1, Len(FragTiles(arr, f)) + 1)]

get_global_tile_coords(arr, fs, f) ==
  IF fs[f].fetched \in 1..Len(FragTiles(arr, f))
  THEN FragTiles(arr, f)[fs[f].fetched]
  ELSE NULL

reset_overflow(fs) ==
  [f \in DOMAIN fs |-> [fs[f] EXCEPT !.overflow = [a \in AttrIdx |-> FALSE]]]

tile_done(fs, f, attr) ==
  [fs EXCEPT ![f].tile[attr] = @ + 1, ![f].offset[attr] = 0]

\* Whether dense fragment f stores every cell of the range lo..hi.
max_overlap(arr, f, lo, hi) ==
  arr.fragments[f].dense /\ \A c \in lo..hi : c \in arr.fragments[f].cells

\* The cell ranges fragment f contributes to tile t: its stored cells in
\* the query range, one (tight) range.
compute_fragment_cell_ranges(arr, f, t, buf) ==
  LET cs == arr.fragments[f].cells \cap RangeCells(arr, t)
  IN IF cs = {} THEN <<>>
     ELSE <<[first |-> f, lo |-> Min(cs), hi |-> Max(cs), buf |-> buf]>>

\* The cell the fragment copies for position p of the tile attr is on
\* (-1: the fragment holds no such tile).
CellAt(arr, fs, f, attr, p) ==
  LET ts == FragTiles(arr, f)
      i == fs[f].tile[attr]
  IN [frag |-> f,
      cell |-> IF i \in 1..MinOf(Len(ts), fs[f].fetched)
               THEN TileLo(ts[i]) + p ELSE -1]

\* copy_cell_range: copies the cells of positions lo..hi not yet copied,
\* as many as fit in the buffer; result [fs, out, offset].
copy_cell_range(arr, fs, f, attr, buffer_size, buffer_offset, lo, hi) ==
  LET free == CDiv(buffer_size - buffer_offset, CellSize)
      start == MaxOf(fs[f].offset[attr], lo)
      n == MinOf(free, hi - start + 1)
  IN IF free = 0
     THEN [fs |-> [fs EXCEPT ![f].overflow[attr] = TRUE], out |-> <<>>,
           offset |-> buffer_offset]
     ELSE IF fs[f].offset[attr] > hi
     THEN [fs |-> fs, out |-> <<>>, offset |-> buffer_offset]
     ELSE [fs |-> [fs EXCEPT ![f].offset[attr] = start + n,
                             ![f].overflow[attr] = @ \/ (start + n - 1 < hi)],
           out |-> [k \in 1..n |-> CellAt(arr, fs, f, attr, start + k - 1)],
           offset |-> buffer_offset + n * CellSize]

(***************************************************************************)
(* ArrayReadState.  The operators below work on a bundle                   *)
(* st = [a, fs, m, out, rc]: the ArrayReadState fields, the fragments'     *)
(* read states, the coord buffers, the cells copied to the caller per      *)
(* attribute, and the return code ("ok", "err"; "assert": an assertion     *)
(* failed; "crash": undefined behaviour ended the process).                *)
(***************************************************************************)
FragNum(arr) == Cardinality(FragIds(arr))

\* Lines 60-79: the constructor.  It does not assign max_overlap_type_
\* ("UNSET"), which compute_max_overlap_range writes before any read of it.
ArrayReadState ==
  [tile_done_ |-> [i \in Attrs |-> TRUE],
   overflow_ |-> [i \in AttrIdx |-> FALSE],
   done_ |-> FALSE,
   max_overlap_range_ |-> NULL_RANGE,
   max_overlap_type_ |-> "UNSET",
   max_overlap_i_ |-> -1,
   range_global_tile_coords_ |-> NULL,
   range_global_tile_domain_ |-> NULL_RANGE,
   fragment_global_tile_coords_ |-> <<>>,
   fragment_cell_pos_ranges_vec_ |-> <<>>,
   fragment_cell_pos_ranges_vec_pos_ |-> [i \in AttrIdx |-> 0],
   cleaned_ |-> [vec |-> <<>>, pos |-> [i \in AttrIdx |-> 0],
                 vec_after |-> <<>>, pos_after |-> [i \in AttrIdx |-> 0]],
   visited_ |-> <<>>,
   copies_ |-> <<>>,
   merged_ |-> [status |-> "none", pq |-> {}]]

\* Lines 127-153.  cleaned_ is a history field: the plans and the positions
\* before and after the latest call.  visited_ is a history field as well:
\* the values the tile cursor range_global_tile_coords_ has taken.
clean_up_processed_fragment_cell_pos_ranges(arr, a) ==
  LET ids == arr.attribute_ids
      pos == a.fragment_cell_pos_ranges_vec_pos_
      RECURSIVE MinPos(_, _)
      MinPos(i, m) ==
        IF i > Len(ids) THEN m
        ELSE MinPos(i + 1, IF pos[ids[i]] < m THEN pos[ids[i]] ELSE m)
      min_pos == MinPos(2, pos[0])
      vec == a.fragment_cell_pos_ranges_vec_
      Cleaned(vec_after, pos_after) ==
        [a EXCEPT
           !.fragment_cell_pos_ranges_vec_ = vec_after,
           !.fragment_cell_pos_ranges_vec_pos_ = pos_after,
           !.cleaned_ = [vec |-> vec, pos |-> pos,
                         vec_after |-> vec_after, pos_after |-> pos_after]]
  IN IF min_pos # 0
     THEN Cleaned(SubSeq(vec, min_pos + 1, Len(vec)),
                  [i \in AttrIdx |->
                     IF pos[i] # 0 THEN pos[i] - min_pos ELSE pos[i]])
     ELSE Cleaned(vec, pos)

\* Lines 839-901.
init_range_global_tile_coords(arr, a) ==
  LET tile_num == (DomHi - DomLo + 1 + Extent - 1) \div Extent
      lo == MaxOf(CDiv(arr.range[1] - DomLo, Extent), 0)
      hi == MinOf(CDiv(arr.range[2] - DomLo, Extent), tile_num - 1)
      overlap == ~(lo > tile_num - 1 \/ hi < 0)
  IN IF overlap
     THEN [a EXCEPT !.range_global_tile_domain_ = <<lo, hi>>,
                    !.range_global_tile_coords_ = lo,
                    !.visited_ = Append(@, lo)]
     ELSE [a EXCEPT !.range_global_tile_domain_ = NULL_RANGE]

\* An advance that takes the last tile of the range tile domain for a tile
\* outside of it.
get_next_range_global_tile_coords_short(a) ==
  LET coords == get_next_tile_coords(a.range_global_tile_coords_)
      dom == a.range_global_tile_domain_
      inside_domain == ~(coords < dom[1] \/ coords >= dom[2])
  IN IF inside_domain
     THEN [a EXCEPT !.range_global_tile_coords_ = coords,
                    !.visited_ = Append(@, coords)]
     ELSE [a EXCEPT !.range_global_tile_domain_ = NULL_RANGE,
                    !.range_global_tile_coords_ = NULL]

\* Lines 807-837.
get_next_range_global_tile_coords(a) ==
  LET coords == get_next_tile_coords(a.range_global_tile_coords_)
      dom == a.range_global_tile_domain_
      inside_domain == ~(coords < dom[1] \/ coords > dom[2])
  IN IF inside_domain
     THEN [a EXCEPT !.range_global_tile_coords_ = coords,
                    !.visited_ = Append(@, coords)]
     ELSE [a EXCEPT !.range_global_tile_domain_ = NULL_RANGE,
                    !.range_global_tile_coords_ = NULL]

\* Lines 752-805, for dim_num = 1: no dimension remains for the
\* PARTIAL_NON_CONTIG test of either cell order.
compute_max_overlap_range(arr, a) ==
  LET tile_coords == a.range_global_tile_coords_ * Extent + DomLo
      lo == MaxOf(arr.range[1] - tile_coords, 0)
      hi == MinOf(arr.range[2] - tile_coords, Extent - 1)
  IN [a EXCEPT !.max_overlap_range_ = <<lo, hi>>,
               !.max_overlap_type_ =
                  IF lo # 0 \/ hi # Extent - 1 THEN "PARTIAL_CONTIG" ELSE "FULL"]

\* Whether fragment f is positioned on the current range tile.
OnRangeTile(a, f) ==
  /\ a.fragment_global_tile_coords_[f] # NULL
  /\ a.fragment_global_tile_coords_[f] = a.range_global_tile_coords_

\* A search that stops at the oldest fragment with the maximum overlap.
OldestOverlapFragment(arr, a) ==
  LET glo == a.range_global_tile_coords_ * Extent + a.max_overlap_range_[1] + DomLo
      ghi == a.range_global_tile_coords_ * Extent + a.max_overlap_range_[2] + DomLo
      S == {f \in FragIds(arr) : OnRangeTile(a, f) /\ max_overlap(arr, f, glo, ghi)}
  IN IF S = {} THEN -1 ELSE Min(S)

\* Lines 592-606.
MaxOverlapFragment(arr, a) ==
  LET glo == a.range_global_tile_coords_ * Extent + a.max_overlap_range_[1] + DomLo
      ghi == a.range_global_tile_coords_ * Extent + a.max_overlap_range_[2] + DomLo
      S == {f \in FragIds(arr) : OnRangeTile(a, f) /\ max_overlap(arr, f, glo, ghi)}
  IN IF S = {} THEN -1 ELSE Max(S)

\* Lines 648-750, FULL or PARTIAL_CONTIG: one range over the overlap.
compute_max_overlap_fragment_cell_ranges(a, buf) ==
  LET t == a.range_global_tile_coords_
  IN <<[first |-> a.max_overlap_i_,
        lo |-> t * Extent + a.max_overlap_range_[1] + DomLo,
        hi |-> t * Extent + a.max_overlap_range_[2] + DomLo,
        buf |-> buf]>>

\* Lines 614-625: the ranges of the fragments after max_overlap_i_.
RECURSIVE RestFragmentCellRanges(_, _, _, _)
RestFragmentCellRanges(arr, a, i, rs) ==
  IF i >= FragNum(arr) THEN rs
  ELSE RestFragmentCellRanges(arr, a, i + 1,
         IF OnRangeTile(a, i)
         THEN rs \o compute_fragment_cell_ranges(
                      arr, i, a.range_global_tile_coords_, rs[Len(rs)].buf + 1)
         ELSE rs)

\* Lines 575-587: sparse fragments behind the range tile catch up.
RECURSIVE AdvanceSparse(_, _, _, _)
AdvanceSparse(arr, fs, t, i) ==
  IF i >= FragNum(arr) THEN fs
  ELSE IF /\ ~arr.fragments[i].dense
          /\ get_global_tile_coords(arr, fs, i) # NULL
          /\ tile_order_cmp(get_global_tile_coords(arr, fs, i), t) < 0
       THEN AdvanceSparse(arr, get_next_overlapping_tile_mult(arr, fs, i), t, i)
       ELSE AdvanceSparse(arr, fs, t, i + 1)

RECURSIVE AdvanceAll(_, _, _, _)
AdvanceAll(arr, fs, which, i) ==
  IF i >= FragNum(arr) THEN fs
  ELSE AdvanceAll(arr,
         IF i \in which THEN get_next_overlapping_tile_mult(arr, fs, i) ELSE fs,
         which, i + 1)

\* What a plan was computed from (a history field of the plan): the
\* fragment ids of the unsorted input ranges in their order, the tile
\* coordinates of the fragments, max_overlap_i_ and max_overlap_range_.
PlanInputs(a, unsorted) ==
  [ids |-> [i \in 1..Len(unsorted) |-> unsorted[i].first],
   coords |-> a.fragment_global_tile_coords_,
   max_overlap_i |-> a.max_overlap_i_,
   max_overlap_range |-> a.max_overlap_range_]

\* Lines 589-646: the plan of the tile the cursor is on.
PlanCurrentTile(arr, st, ub, fault) ==
  LET Inserted(a2, unsorted, r) ==
        IF r.status = "ok"
        THEN [st EXCEPT
                !.a = clean_up_processed_fragment_cell_pos_ranges(arr,
                        [a2 EXCEPT !.fragment_cell_pos_ranges_vec_ =
                           Append(@, [tile |-> a2.range_global_tile_coords_,
                                      ranges |-> r.plan,
                                      inputs |-> PlanInputs(a2, unsorted),
                                      consulted |-> r.consulted])]),
                !.m = r.mem]
        ELSE IF r.status = "err"
        THEN [st EXCEPT !.a = a2, !.m = FreeAll(r.mem, BufsOf(unsorted)),
                        !.rc = "err"]
        ELSE [st EXCEPT !.a = a2, !.m = r.mem, !.rc = "crash"]
      \* merged_ is a history field: how the latest merge loop ended and
      \* the queue it left.
      Insert(a2, unsorted, r) ==
        Inserted([a2 EXCEPT !.merged_ = [status |-> r.status, pq |-> r.pq]],
                 unsorted, r)
      Merge(a2, unsorted) ==
        Insert(a2, unsorted,
               compute_fragment_cell_pos_ranges(
                 arr, a2.range_global_tile_coords_, unsorted,
                 [st.m EXCEPT
                    !.live = @ \cup {unsorted[i].buf : i \in 1..Len(unsorted)},
                    !.next = @ + Len(unsorted)],
                 ub, fault))
      Collect(a2) ==
        Merge(a2, RestFragmentCellRanges(arr, a2, a2.max_overlap_i_ + 1,
                    compute_max_overlap_fragment_cell_ranges(a2, st.m.next)))
      Overlap(a1) ==
        Collect([a1 EXCEPT !.max_overlap_i_ = MaxOverlapFragment(arr, a1)])
  IN Overlap(compute_max_overlap_range(arr, st.a))

\* Lines 507-646.
get_next_cell_ranges_dense(arr, st, ub, fault) ==
  LET Plan(a1, fs2) ==
        PlanCurrentTile(arr,
          [st EXCEPT !.fs = fs2,
             !.a = [a1 EXCEPT !.fragment_global_tile_coords_ =
                      [f \in FragIds(arr) |-> get_global_tile_coords(arr, fs2, f)]]],
          ub, fault)
      Advance(a1, which) ==
        IF a1.range_global_tile_coords_ = NULL
        THEN [st EXCEPT !.a = [a1 EXCEPT !.done_ = TRUE]]
        ELSE Plan(a1, AdvanceSparse(arr, AdvanceAll(arr, st.fs, which, 0),
                                    a1.range_global_tile_coords_, 0))
  IN IF Len(st.a.fragment_cell_pos_ranges_vec_) = 0
     THEN Advance(init_range_global_tile_coords(arr, st.a), FragIds(arr))
     ELSE IF st.a.range_global_tile_coords_ = NULL
     THEN [st EXCEPT !.rc = "assert"]
     ELSE Advance(get_next_range_global_tile_coords(st.a),
                  {f \in FragIds(arr) :
                     /\ st.a.fragment_global_tile_coords_[f] # NULL
                     /\ st.a.fragment_global_tile_coords_[f] =
                          st.a.range_global_tile_coords_})

\* Lines 155-163: the body is empty ("TODO"): nothing is written, the
\* offset does not move and overflow_ is not set.
copy_cell_range_with_empty(st, attr, buffer_size, buffer_offset, lo, hi) ==
  [st |-> st, offset |-> buffer_offset]

\* Lines 185-218: the loop over the ranges of the plan, from its first.
RECURSIVE CopyRanges(_, _, _, _, _, _, _)
CopyRanges(arr, st, attr, buffer_size, buffer_offset, rs, fault) ==
  LET Empty(e) ==
        IF e.st.a.overflow_[attr] THEN e
        ELSE CopyRanges(arr, e.st, attr, buffer_size, e.offset, Tail(rs), fault)
      Copied(c, st1) ==
        IF c.fs[Head(rs).first].overflow[attr]
        THEN [st |-> [st1 EXCEPT !.a.overflow_[attr] = TRUE], offset |-> c.offset]
        ELSE CopyRanges(arr, st1, attr, buffer_size, c.offset, Tail(rs), fault)
      Copy(c) == Copied(c, [st EXCEPT !.fs = c.fs, !.out[attr] = @ \o c.out])
  IN IF rs = <<>> THEN [st |-> st, offset |-> buffer_offset]
     ELSE IF Head(rs).first = -1
     THEN Empty(copy_cell_range_with_empty(st, attr, buffer_size, buffer_offset,
                                           Head(rs).lo, Head(rs).hi))
     ELSE IF fault = "copy_cell_range"
     THEN [st |-> [st EXCEPT !.rc = "err"], offset |-> buffer_offset]
     ELSE Copy(copy_cell_range(arr, st.fs, Head(rs).first, attr, buffer_size,
                               buffer_offset, Head(rs).lo, Head(rs).hi))

\* Lines 220-233: the tile is done for the attribute, or it overflowed.
\* memcmp against range_global_tile_coords_ = NULL is undefined: it ends
\* the process (ub = "crash"), or compares equal ("true") or not ("false").
NullCompare(arr, a) ==
  /\ a.range_global_tile_coords_ = NULL
  /\ \E f \in FragIds(arr) : a.fragment_global_tile_coords_[f] # NULL

SameTile(a, f, ub) ==
  /\ a.fragment_global_tile_coords_[f] # NULL
  /\ IF a.range_global_tile_coords_ = NULL THEN ub = "true"
     ELSE a.fragment_global_tile_coords_[f] = a.range_global_tile_coords_

RECURSIVE NotifyTileDone(_, _, _, _, _, _)
NotifyTileDone(arr, a, fs, attr, i, ub) ==
  IF i >= FragNum(arr) THEN fs
  ELSE NotifyTileDone(arr, a,
         IF SameTile(a, i, ub) THEN tile_done(fs, i, attr) ELSE fs,
         attr, i + 1, ub)

\* An end of copy_cell_ranges that treats an overflowed plan as finished.
FinishCopyIgnoringOverflow(arr, st, attr, ub) ==
  IF NullCompare(arr, st.a) /\ ub = "crash"
  THEN [st EXCEPT !.rc = "crash"]
  ELSE [st EXCEPT !.fs = NotifyTileDone(arr, st.a, st.fs, attr, 0, ub),
                  !.a.fragment_cell_pos_ranges_vec_pos_[attr] = @ + 1,
                  !.a.tile_done_[attr] = TRUE]

FinishCopy(arr, st, attr, ub) ==
  IF st.a.overflow_[attr]
  THEN [st EXCEPT !.a.tile_done_[attr] = FALSE]
  ELSE IF NullCompare(arr, st.a) /\ ub = "crash"
  THEN [st EXCEPT !.rc = "crash"]
  ELSE [st EXCEPT !.fs = NotifyTileDone(arr, st.a, st.fs, attr, 0, ub),
                  !.a.fragment_cell_pos_ranges_vec_pos_[attr] = @ + 1,
                  !.a.tile_done_[attr] = TRUE]

\* What a call of copy_cell_ranges that returned did (an element of the
\* history field copies_): the attribute, the tile of the plan it copied
\* (NULL: no plan at the position), the tile cursor and the fragments' tile
\* coordinates during the call, the position before and after, overflow_
\* and tile_done_ of the attribute after, whether a fragment reported
\* overflow, and the fragments that received tile_done.
CopyRecord(arr, st, s2, attr) ==
  LET pos == st.a.fragment_cell_pos_ranges_vec_pos_[attr]
      vec == st.a.fragment_cell_pos_ranges_vec_
  IN [attr |-> attr,
      tile |-> IF pos >= 0 /\ pos < Len(vec) THEN vec[pos + 1].tile ELSE NULL,
      cursor |-> st.a.range_global_tile_coords_,
      coords |-> st.a.fragment_global_tile_coords_,
      pos |-> pos,
      pos_after |-> s2.a.fragment_cell_pos_ranges_vec_pos_[attr],
      overflow |-> s2.a.overflow_[attr],
      tile_done |-> s2.a.tile_done_[attr],
      reported |-> \E f \in FragIds(arr) : s2.fs[f].overflow[attr],
      notified |-> {f \in FragIds(arr) : s2.fs[f].tile[attr] # st.fs[f].tile[attr]}]

\* Lines 165-237.  Indexing fragment_cell_pos_ranges_vec_ out of its bounds
\* is undefined: it ends the process, or reads a plan of no ranges.
\* copies_ is a history field: the calls of the current turn of the
\* attribute loop that returned OK.
copy_cell_ranges(arr, st, attr, buffer_size, buffer_offset, ub, fault) ==
  LET pos == st.a.fragment_cell_pos_ranges_vec_pos_[attr]
      vec == st.a.fragment_cell_pos_ranges_vec_
      valid == pos >= 0 /\ pos < Len(vec)
      Record(s2) ==
        IF s2.rc # "ok" THEN s2
        ELSE [s2 EXCEPT !.a.copies_ = Append(@, CopyRecord(arr, st, s2, attr))]
      Finish(c) ==
        IF c.st.rc # "ok" THEN c
        ELSE [st |-> Record(FinishCopy(arr, c.st, attr, ub)), offset |-> c.offset]
  IN IF ~valid /\ ub = "crash"
     THEN [st |-> [st EXCEPT !.rc = "crash"], offset |-> buffer_offset]
     ELSE Finish(CopyRanges(arr, st, attr, buffer_size, buffer_offset,
                            IF valid THEN vec[pos + 1].ranges ELSE <<>>, fault))

\* Lines 966-1020: the loop of read_multiple_fragments_dense_attr<T>.
\* Result [st, size]: size is the rewritten buffer_size, NULL when the
\* function returns without assigning it.  The comparison of line 993 is
\* unsigned, so a negative position compares greater than the size.
RECURSIVE AttrLoop(_, _, _, _, _, _, _)
AttrLoop(arr, st, attr, buffer_size, buffer_offset, ub, fault) ==
  LET failed(s) == [st |-> s, size |-> NULL]
      \* lines 1007-1017: copy the plan that was just computed
      Copy(c3) ==
        IF c3.st.rc # "ok" THEN failed(c3.st)
        ELSE IF c3.st.a.overflow_[attr] THEN [st |-> c3.st, size |-> c3.offset]
        ELSE AttrLoop(arr, c3.st, attr, buffer_size, c3.offset, ub, fault)
      \* lines 999-1004: the read is done
      Computed(s2, offset) ==
        IF s2.rc # "ok" THEN failed(s2)
        ELSE IF s2.a.done_ THEN [st |-> s2, size |-> offset]
        ELSE Copy(copy_cell_ranges(arr, s2, attr, buffer_size, offset, ub, fault))
      \* lines 991-997: compute the next plan when this one is finished
      Pending(c1) ==
        IF c1.st.rc # "ok" THEN failed(c1.st)
        ELSE IF c1.st.a.overflow_[attr] THEN [st |-> c1.st, size |-> c1.offset]
        ELSE Computed(
               IF \/ c1.st.a.fragment_cell_pos_ranges_vec_pos_[attr] < 0
                  \/ c1.st.a.fragment_cell_pos_ranges_vec_pos_[attr] >=
                       Len(c1.st.a.fragment_cell_pos_ranges_vec_)
               THEN get_next_cell_ranges_dense(arr, c1.st, ub, fault)
               ELSE c1.st,
               c1.offset)
  \* lines 976-989: continue the pending plan
  IN IF ~st.a.tile_done_[attr]
     THEN Pending(copy_cell_ranges(arr, st, attr, buffer_size, buffer_offset,
                                   ub, fault))
     ELSE Pending([st |-> st, offset |-> buffer_offset])

\* Lines 96-121 (before the dispatch): the resets of a new read.
ResetForRead(st) ==
  [st EXCEPT !.a.overflow_ = [i \in AttrIdx |-> FALSE],
             !.a.done_ = FALSE,
             !.fs = reset_overflow(st.fs)]

(***************************************************************************)
(* The arrays the model reads: one or two fragments, the query range and   *)
(* the requested attributes.                                               *)
(***************************************************************************)
DenseFragment(lo, hi) == [dense |-> TRUE, cells |-> lo..hi]
SparseFragment(S) == [dense |-> FALSE, cells |-> S]

FragmentChoices ==
  {DenseFragment(DomLo, DomHi),
   DenseFragment(DomLo, DomLo + 1),
   DenseFragment(DomLo + 2, DomLo + Extent + 1),
   SparseFragment({DomLo + 1, DomLo + 3}),
   SparseFragment({DomLo + 2}),
   SparseFragment({DomLo, DomLo + Extent + 1})}

FragmentLists ==
  {(0 :> x) : x \in FragmentChoices}
    \cup {(0 :> x @@ 1 :> y) : x \in FragmentChoices, y \in FragmentChoices}

Ranges == {<<DomLo, DomHi>>, <<DomLo + 1, DomLo + Extent + 1>>}

AttributeIdLists == {<<0>>, <<1>>, <<0, 1>>, <<1, 0>>}

\* Every fragment list is read for attribute 0; the lists whose first
\* fragment is dense over the whole domain are read for every attribute list.
\* dense and var_size are the schema's answers to dense() and var_size(id).
\* The arrays the read functions do not implement are the sparse ones and
\* the dense ones with a variable-sized attribute.
Arrays ==
  [fragments : FragmentLists, range : Ranges, attribute_ids : {<<0>>},
   dense : {TRUE}, var_size : {{}}]
    \cup [fragments : {fl \in FragmentLists :
                         fl[0] = DenseFragment(DomLo, DomHi)},
          range : {<<DomLo, DomHi>>},
          attribute_ids : AttributeIdLists,
          dense : {TRUE}, var_size : {{}}]
    \cup [fragments : {(0 :> SparseFragment({DomLo + 2}))},
          range : {<<DomLo, DomHi>>},
          attribute_ids : AttributeIdLists,
          dense : {FALSE}, var_size : {{}}]
    \cup [fragments : {(0 :> DenseFragment(DomLo, DomHi))},
          range : {<<DomLo, DomHi>>},
          attribute_ids : AttributeIdLists,
          dense : {TRUE}, var_size : {{0}}]

Caps == {k * CellSize : k \in 1..MaxCapCells} \cup {(DomHi - DomLo + 1) * CellSize}
UBOutcomes == {"crash", "true", "false"}
Faults == {"none", "copy_cell_range", "get_first_two_coords",
           "get_cell_pos_ranges_sparse"}

\* Lines 1022-1035: read_multiple_fragments_dense_attr_var and
\* read_multiple_fragments_sparse have an empty body and no return
\* statement.  Flowing off the end of a function that returns int is
\* undefined: the caller reads OK, ERR or any other number as the return
\* code, or the process ends.
StubOutcomes == {"ok", "err", "garbage", "crash"}

Bundle == [a |-> ars, fs |-> fragments, m |-> mem, out |-> io.out, rc |-> "ok"]

\* The fragments' read states before the first read.
FragmentsInit(arr) ==
  [f \in FragIds(arr) |->
     [fetched |-> 0,
      tile |-> [a \in AttrIdx |-> 1],
      offset |-> [a \in AttrIdx |-> 0],
      overflow |-> [a \in AttrIdx |-> FALSE]]]

Requested(arr) == {arr.attribute_ids[i] : i \in 1..Len(arr.attribute_ids)}

\* The tile cursor has run past the last tile and every requested attribute
\* has copied every plan.
Exhausted(arr, a) ==
  /\ a.range_global_tile_coords_ = NULL
  /\ Len(a.fragment_cell_pos_ranges_vec_) > 0
  /\ \A attr \in Requested(arr) :
       /\ a.fragment_cell_pos_ranges_vec_pos_[attr] =
            Len(a.fragment_cell_pos_ranges_vec_)
       /\ ~a.overflow_[attr]

\* Lines 68-78: tile_done_ is resized to attribute_num elements and the
\* loop writes tile_done_[attribute_num], one past its end.  The write is
\* undefined: it lands in the slack of the vector's last word and the
\* construction completes, or the process ends in the constructor.
ConstructorOutcomes == {"idle", "aborted"}

\* io is the caller's side of a read: out the cells received per attribute,
\* buffer_sizes the sizes rewritten by the current call (NULL: not
\* rewritten), rc its return code, i the turn of the attribute loop,
\* after_end whether the call started after the stream was exhausted.
Init ==
  /\ array \in Arrays
  /\ ars = ArrayReadState
  /\ fragments = FragmentsInit(array)
  /\ mem = [live |-> {}, next |-> 1, dfree |-> FALSE]
  /\ io = [out |-> [a \in Attrs |-> <<>>],
           buffer_sizes |-> [i \in 1..Len(array.attribute_ids) |-> NULL],
           rc |-> "ok", i |-> 0, after_end |-> FALSE]
  /\ pc \in ConstructorOutcomes

\* read_multiple_fragments, lines 96-121: a new read starts.  The caller
\* abandons the read after a call that returned ERROR.
ReadBegin ==
  /\ pc = "idle"
  /\ io.rc = "ok"
  /\ LET st == ResetForRead(Bundle)
     IN /\ ars' = st.a
        /\ fragments' = st.fs
  /\ io' = [io EXCEPT !.buffer_sizes = [i \in DOMAIN @ |-> NULL],
                      !.rc = "ok", !.i = 1,
                      !.after_end = Exhausted(array, ars)]
  /\ pc' = "serving"
  /\ UNCHANGED <<array, mem>>

\* read_multiple_fragments_dense, lines 910-936: one turn of the loop over
\* the requested attributes, for a buffer of cap bytes.
ServeAttr ==
  /\ pc = "serving"
  /\ array.dense
  /\ array.attribute_ids[io.i] \notin array.var_size
  /\ \E cap \in Caps, ub \in UBOutcomes, fault \in Faults :
       \E r \in {AttrLoop(array, [Bundle EXCEPT !.a.copies_ = <<>>],
                          array.attribute_ids[io.i], cap, 0, ub, fault)} :
         /\ ars' = r.st.a
         /\ fragments' = r.st.fs
         /\ mem' = r.st.m
         /\ io' = [io EXCEPT
                     !.out = r.st.out,
                     !.buffer_sizes[io.i] = r.size,
                     !.rc = r.st.rc,
                     !.i = IF r.st.rc = "ok" THEN @ + 1 ELSE @]
         /\ pc' = IF r.st.rc \in {"crash", "assert"} THEN "aborted"
                  ELSE IF r.st.rc = "err" \/ io.i = Len(array.attribute_ids)
                  THEN "return" ELSE "serving"
  /\ UNCHANGED array

\* read_multiple_fragments_dense, lines 924-935: the turn of a
\* variable-sized attribute calls read_multiple_fragments_dense_attr_var.
ServeAttrVar ==
  /\ pc = "serving"
  /\ array.dense
  /\ array.attribute_ids[io.i] \in array.var_size
  /\ \E rc \in StubOutcomes :
       /\ io' = [io EXCEPT !.rc = rc,
                           !.i = IF rc = "ok" THEN @ + 1 ELSE @]
       /\ pc' = IF rc = "crash" THEN "aborted"
                ELSE IF rc # "ok" \/ io.i = Len(array.attribute_ids)
                THEN "return" ELSE "serving"
  /\ UNCHANGED <<array, ars, fragments, mem>>

\* read_multiple_fragments, lines 118-119: the read of a sparse array is
\* read_multiple_fragments_sparse.
ReadSparse ==
  /\ pc = "serving"
  /\ ~array.dense
  /\ \E rc \in StubOutcomes :
       /\ io' = [io EXCEPT !.rc = rc]
       /\ pc' = IF rc = "crash" THEN "aborted" ELSE "return"
  /\ UNCHANGED <<array, ars, fragments, mem>>

\* read_multiple_fragments_dense, line 938: the read returns rc.
ReadReturn ==
  /\ pc = "return"
  /\ pc' = "idle"
  /\ UNCHANGED <<array, ars, fragments, mem, io>>

Next == ReadBegin \/ ServeAttr \/ ServeAttrVar \/ ReadSparse \/ ReadReturn

Spec == Init /\ [][Next]_vars

(***************************************************************************)
(* The properties of the read path.                                        *)
(***************************************************************************)
BigCap == (DomHi - DomLo + 1) * CellSize

IsPrefix(p, q) == Len(p) <= Len(q) /\ SubSeq(q, 1, Len(p)) = p

\* The fragments whose stored data covers cell c, and the most recent one.
Covering(arr, c) == {f \in FragIds(arr) : c \in arr.fragments[f].cells}
MostRecent(arr, c) == IF Covering(arr, c) = {} THEN -1 ELSE Max(Covering(arr, c))

\* The fragment ids the plan of a tile assigns to cell c.
AssignedTo(plan, c) ==
  {plan.ranges[i].first :
     i \in {j \in 1..Len(plan.ranges) :
              /\ plan.ranges[j].lo <= c - TileLo(plan.tile)
              /\ c - TileLo(plan.tile) <= plan.ranges[j].hi}}

\* One read call with buffers that hold the whole range, on a new
\* ArrayReadState: the cells each attribute receives.
RECURSIVE ReadAll(_, _, _, _)
ReadAll(arr, st, i, ub) ==
  IF i > Len(arr.attribute_ids) \/ st.rc # "ok" THEN st
  ELSE ReadAll(arr,
               AttrLoop(arr, st, arr.attribute_ids[i], BigCap, 0, ub, "none").st,
               i + 1, ub)

OneCall(arr, ub) ==
  ReadAll(arr,
          ResetForRead([a |-> ArrayReadState, fs |-> FragmentsInit(arr),
                        m |-> [live |-> {}, next |-> 1, dfree |-> FALSE],
                        out |-> [a \in Attrs |-> <<>>], rc |-> "ok"]),
          1, ub).out

\* The attribute served by the last turn of the attribute loop.
Served == array.attribute_ids[io.i - 1]
HasServed == pc \in {"serving", "return"} /\ io.rc = "ok" /\ io.i > 1

\* A call has returned OK and the stream of attr ended without overflow.
StreamEnded(attr) == pc = "return" /\ io.rc = "ok" /\ ~ars.overflow_[attr]

\* C1: most-recent-wins.  Every plan assigns every cell of the query range
\* in its tile to the highest-indexed fragment whose stored data covers the
\* cell, and to fragment -1 only when no fragment covers it.
C1_MostRecentWins ==
  \A i \in 1..Len(ars.fragment_cell_pos_ranges_vec_) :
    \A c \in RangeCells(array, ars.fragment_cell_pos_ranges_vec_[i].tile) :
      AssignedTo(ars.fragment_cell_pos_ranges_vec_[i], c) = {MostRecent(array, c)}

\* C2: for each requested attribute the cells copied to the caller are
\* strictly increasing in global cell order: none twice, none out of order.
C2_StrictlyIncreasing ==
  \A attr \in Requested(array) :
    \A k \in 1..(Len(io.out[attr]) - 1) :
      io.out[attr][k].cell < io.out[attr][k + 1].cell

\* C3: overflow resumability.  While no call has failed, the cells
\* an attribute has received over consecutive read calls are a prefix of
\* what one read call with sufficient capacity delivers, and are exactly
\* that when the attribute's stream has ended.
C3_Resumable ==
  io.rc = "ok" =>
    \A attr \in Requested(array) :
      \E ub \in UBOutcomes :
        /\ IsPrefix(io.out[attr], OneCall(array, ub)[attr])
        /\ StreamEnded(attr) => io.out[attr] = OneCall(array, ub)[attr]

\* C4: multi-attribute coherence.  When a read call returns with the
\* stream of every requested attribute ended, every requested attribute
\* has received the same cells in the same order.
C4_Coherent ==
  (\A attr \in Requested(array) : StreamEnded(attr)) =>
    \A a1 \in Requested(array), a2 \in Requested(array) :
      io.out[a1] = io.out[a2]

\* C5: after a read call has returned, no coord-range buffer allocated for
\* the per-tile merge is live.
C5_NoLiveBuffers == pc = "return" => mem.live = {}

\* C6: when a fragment operation fails the call returns ERROR and the call
\* has rewritten no entry of buffer_sizes.
C6_NoSizeOnError ==
  (pc = "return" /\ io.rc = "err") =>
    \A i \in DOMAIN io.buffer_sizes : io.buffer_sizes[i] = NULL

\* C7: a read call that starts after the stream was exhausted fails no
\* assertion and returns success with every size rewritten to 0.
C7_ReadAfterEnd ==
  io.after_end =>
    /\ pc # "aborted"
    /\ pc = "return" =>
         /\ io.rc = "ok"
         /\ \A i \in DOMAIN io.buffer_sizes : io.buffer_sizes[i] = 0

\* C8: an attribute's stream ends as DONE (the attribute loop returns OK
\* for it without marking its overflow) only when the tile cursor is
\* exhausted and the attribute has copied every plan.
C8_DoneOnlyAtEnd ==
  (HasServed /\ ~ars.overflow_[Served]) =>
    /\ ars.range_global_tile_coords_ = NULL
    /\ ars.fragment_cell_pos_ranges_vec_pos_[Served] =
         Len(ars.fragment_cell_pos_ranges_vec_)

\* C9: the cells no fragment covers are delivered as fill values, so that
\* a complete read of one attribute delivers one value per cell of the
\* query range.
C9_OneValuePerCell ==
  \A attr \in Requested(array) :
    (Len(array.attribute_ids) = 1 /\ StreamEnded(attr)) =>
      Len(io.out[attr]) = array.range[2] - array.range[1] + 1

\* C10: for every attribute index, the coordinates included,
\* 0 <= plan_pos[attr] <= len(plans).
C10_PlanPosInBounds ==
  \A attr \in AttrIdx :
    /\ 0 <= ars.fragment_cell_pos_ranges_vec_pos_[attr]
    /\ ars.fragment_cell_pos_ranges_vec_pos_[attr] <=
         Len(ars.fragment_cell_pos_ranges_vec_)

\* The cell positions a plan covers, and the positions of the query range
\* in the plan's tile.
PlanPositions(plan) ==
  UNION {plan.ranges[i].lo .. plan.ranges[i].hi : i \in 1..Len(plan.ranges)}
RangePositions(arr, t) == {c - TileLo(t) : c \in RangeCells(arr, t)}

\* C11: in every per-tile plan the ranges are strictly ordered by their
\* first endpoint, non-empty, pairwise disjoint, inside [0, cells per tile)
\* and they cover exactly the positions of the query range in the tile.
C11_PlanWellFormed ==
  \A i \in 1..Len(ars.fragment_cell_pos_ranges_vec_) :
    LET plan == ars.fragment_cell_pos_ranges_vec_[i]
    IN /\ \A j \in 1..Len(plan.ranges) :
            /\ plan.ranges[j].lo <= plan.ranges[j].hi
            /\ 0 <= plan.ranges[j].lo
            /\ plan.ranges[j].hi < Extent
       /\ \A j \in 1..(Len(plan.ranges) - 1) :
            plan.ranges[j].hi < plan.ranges[j + 1].lo
       /\ PlanPositions(plan) = RangePositions(array, plan.tile)

\* The plans every requested attribute has fully copied: the indices of
\* fragment_cell_pos_ranges_vec_ below every requested position.
FullyCopied(arr, a) ==
  {k \in 0..(Len(a.fragment_cell_pos_ranges_vec_) - 1) :
     \A attr \in Requested(arr) : a.fragment_cell_pos_ranges_vec_pos_[attr] > k}

\* C12: a plan that every requested attribute has fully copied is removed:
\* when a read call returns normally no such plan is left in the list, for
\* every list of requested attribute ids and also for the last plan.
C12_CopiedPlansRemoved ==
  (pc = "return" /\ io.rc = "ok") => FullyCopied(array, ars) = {}

\* The thread inside a read call keeps running.  ServeAttr is enabled
\* exactly when pc = "serving" and each of its steps advances io.i or
\* leaves "serving", so under Spec weak fairness of ServeAttr is the
\* condition that "serving" is always left again; it is stated on pc.
ServeAttrFair == []<>(pc # "serving")

FairSpec == Spec /\ ServeAttrFair /\ WF_vars(ReadReturn)

\* C13: every read call terminates: once the attribute loops are running
\* the call eventually returns to its caller (done, overflow or error).
C13_ReadTerminates == (pc = "serving") ~> (pc = "return")

\* C14: after construction every index 0..attribute_num is a valid element
\* of tile_done_ and of the plan positions, tile_done_ is true and the plan
\* position is 0 there, and the construction has completed.
C14_ConstructedState ==
  io.i = 0 =>
    /\ pc = "idle"
    /\ \A i \in AttrIdx :
         /\ i \in DOMAIN ars.fragment_cell_pos_ranges_vec_pos_
         /\ ars.fragment_cell_pos_ranges_vec_pos_[i] = 0
         /\ i \in DOMAIN ars.tile_done_
         /\ ars.tile_done_[i]

\* The running call is at a function that is not implemented: the array is
\* sparse, or the attribute to serve is variable-sized.
Unsupported ==
  /\ pc = "serving"
  /\ ~array.dense \/ array.attribute_ids[io.i] \in array.var_size

\* C15: a read of a sparse array, or of a variable-sized attribute of a
\* dense array, returns the error status and leaves the plans, the plan
\* positions and tile_done_ as they were.
C15_UnsupportedIsError ==
  [][Unsupported =>
       /\ pc' = "return"
       /\ io'.rc = "err"
       /\ ars'.fragment_cell_pos_ranges_vec_ = ars.fragment_cell_pos_ranges_vec_
       /\ ars'.fragment_cell_pos_ranges_vec_pos_ =
            ars.fragment_cell_pos_ranges_vec_pos_
       /\ ars'.tile_done_ = ars.tile_done_]_vars

\* C16: garbage collection keeps the plan of every requested attribute:
\* the plan that was at the attribute's position before the latest
\* clean-up is at the attribute's position after it.
C16_GCKeepsUnfinished ==
  \A attr \in Requested(array) :
    LET g == ars.cleaned_
    IN (g.pos[attr] >= 0 /\ g.pos[attr] < Len(g.vec)) =>
         /\ g.pos_after[attr] >= 0
         /\ g.pos_after[attr] < Len(g.vec_after)
         /\ g.vec_after[g.pos_after[attr] + 1] = g.vec[g.pos[attr] + 1]

\* C17: when a read call returns the error status, no coordinate buffer was
\* released twice on the way out.
C17_ErrorFreesOnce == (pc = "return" /\ io.rc = "err") => ~mem.dfree

(***************************************************************************)
(* The merge queue on its own: a std::priority_queue of fragment cell      *)
(* ranges under SmallerFragmentCellRange, filled with up to MaxHeap ranges *)
(* of one tile (lines 253-259, 1049-1067) and popped until it is empty.    *)
(* io holds the queue and the sequence of popped ranges.                   *)
(***************************************************************************)
MaxHeap == 3

\* The ranges of tile 0 that are unary or end with the tile, of the empty
\* backbone (-1) and of two fragments.
HeapRanges ==
  {r \in [first : -1..1, lo : TileLo(0)..TileEnd(0), hi : TileLo(0)..TileEnd(0)] :
     r.hi \in {r.lo, TileEnd(0)}}

\* The sets of 1..n ranges.
RECURSIVE Heaps(_)
Heaps(n) ==
  IF n = 0 THEN {{}}
  ELSE {pq \cup {r} : pq \in Heaps(n - 1), r \in HeapRanges}

InitPq ==
  /\ array \in {x \in Arrays : /\ x.fragments = (0 :> DenseFragment(DomLo, DomHi))
                               /\ x.range = <<DomLo, DomHi>>
                               /\ x.attribute_ids = <<0>>
                               /\ x.dense /\ x.var_size = {}}
  /\ ars = ArrayReadState
  /\ fragments = FragmentsInit(array)
  /\ mem = [live |-> {}, next |-> 1, dfree |-> FALSE]
  /\ \E pq \in Heaps(MaxHeap) : io = [pq |-> pq, popped |-> <<>>]
  /\ pc = "heap"

\* Lines 277-280: popped = pq.top(); pq.pop().
PqPop ==
  /\ pc = "heap"
  /\ io.pq # {}
  /\ io' = [pq |-> io.pq \ {PqTop(io.pq)},
            popped |-> Append(io.popped, PqTop(io.pq))]
  /\ UNCHANGED <<array, ars, fragments, mem, pc>>

NextPq == PqPop

SpecPq == InitPq /\ [][NextPq]_vars

\* a comes out of the queue before b.
PopsBefore(a, b) == SmallerFragmentCellRange(b, a)

\* The order the queue is meant to have: earliest first endpoint first and,
\* among equal first endpoints, the highest fragment id first.
EarliestThenNewest(a, b) ==
  a.lo < b.lo \/ (a.lo = b.lo /\ a.first >= b.first)

\* C18: the queue pops the range with the earliest first endpoint and,
\* among equal first endpoints, the highest fragment id; "pops before" is
\* a strict weak ordering (irreflexive, asymmetric, transitive, and so is
\* being unordered).
C18_HeapOrder ==
  pc = "heap" =>
    LET popped == {io.popped[i] : i \in 1..Len(io.popped)}
        all == io.pq \cup popped
        Unordered(a, b) == ~PopsBefore(a, b) /\ ~PopsBefore(b, a)
    IN /\ \A i, j \in 1..Len(io.popped) :
            i < j => EarliestThenNewest(io.popped[i], io.popped[j])
       /\ \A a \in popped, b \in io.pq : EarliestThenNewest(a, b)
       /\ \A a \in all : ~PopsBefore(a, a)
       /\ \A a, b \in all : PopsBefore(a, b) => ~PopsBefore(b, a)
       /\ \A a, b, c \in all :
            /\ (PopsBefore(a, b) /\ PopsBefore(b, c)) => PopsBefore(a, c)
            /\ (Unordered(a, b) /\ Unordered(b, c)) => Unordered(a, c)

\* Two ranges with equal first endpoints came out, the higher fragment id
\* first, while a range was still queued.
C18_TiePopped ==
  /\ pc = "heap"
  /\ Len(io.popped) = 2
  /\ io.popped[1].lo = io.popped[2].lo
  /\ io.popped[1].first > io.popped[2].first
  /\ io.pq # {}

\* The tiles of the projected query rectangle in the global tile order.
RECURSIVE TileSequence(_, _)
TileSequence(arr, t) ==
  IF t >= NumTiles THEN <<>>
  ELSE IF RangeCells(arr, t) = {} THEN TileSequence(arr, t + 1)
  ELSE <<t>> \o TileSequence(arr, t + 1)

\* The cursor has visited the first tiles of the rectangle, each once and
\* in order; it is at the tile visited last, or null after all of them;
\* every plan was appended for a visited tile, one plan per tile.
CursorInOrder ==
  LET seq == TileSequence(array, 0)
      v == ars.visited_
      vec == ars.fragment_cell_pos_ranges_vec_
      cursor == ars.range_global_tile_coords_
  IN /\ IsPrefix(v, seq)
     /\ cursor # NULL => (v # <<>> /\ v[Len(v)] = cursor)
     /\ (cursor = NULL /\ v # <<>>) => v = seq
     /\ \A i \in 1..Len(vec) : \E j \in 1..Len(v) : vec[i].tile = v[j]
     /\ \A i \in 1..(Len(vec) - 1) :
          vec[i + 1].tile = get_next_tile_coords(vec[i].tile)

\* The step in which the cursor leaves the last tile.
LeavesLastTile ==
  /\ ars'.range_global_tile_coords_ = NULL
  /\ ars'.visited_ # <<>>
  /\ ars.range_global_tile_coords_ # NULL \/ ars.visited_ = <<>>

\* C19: the tile advances visit every tile of the projected query rectangle
\* exactly once, in the global tile order from its low corner; the advance
\* after the last tile leaves the cursor null, sets done_ and appends no
\* plan.
C19_TilesInOrder ==
  [][/\ CursorInOrder'
     /\ LeavesLastTile => ars'.done_]_vars

\* A read has visited the three tiles of the domain and has left the last.
C19_AllVisited ==
  /\ ars.visited_ = <<0, 1, 2>>
  /\ ars.range_global_tile_coords_ = NULL
  /\ ars.done_
  /\ Len(ars.fragment_cell_pos_ranges_vec_) > 0
  /\ pc = "return"

(***************************************************************************)
(* init_range_global_tile_coords on its own (lines 839-901): it is applied *)
(* to the state of a new ArrayReadState for the query ranges that reach up *)
(* to two tile extents below and one above the array domain.               *)
(***************************************************************************)
QueryEnds == (DomLo - 2 * Extent)..(DomHi + Extent)

InitRange ==
  /\ array \in [fragments : {(0 :> DenseFragment(DomLo, DomHi))},
                range : {q \in QueryEnds \X QueryEnds : q[1] <= q[2]},
                attribute_ids : {<<0>>}, dense : {TRUE}, var_size : {{}}]
  /\ ars = ArrayReadState
  /\ fragments = FragmentsInit(array)
  /\ mem = [live |-> {}, next |-> 1, dfree |-> FALSE]
  /\ io = [out |-> [a \in Attrs |-> <<>>],
           buffer_sizes |-> [i \in 1..Len(array.attribute_ids) |-> NULL],
           rc |-> "ok", i |-> 0, after_end |-> FALSE]
  /\ pc = "init_range"

\* Lines 520-521: the first invocation of get_next_cell_ranges_dense
\* initializes the cursor.
ApplyInitRange ==
  /\ pc = "init_range"
  /\ ars' = init_range_global_tile_coords(array, ars)
  /\ pc' = "init_done"
  /\ UNCHANGED <<array, fragments, mem, io>>

\* Line 590: the overlap of the query range with the tile of the cursor.
OverlapAtCursor ==
  /\ pc \in {"init_done", "advanced"}
  /\ ars.range_global_tile_coords_ # NULL
  /\ ars' = compute_max_overlap_range(array, ars)
  /\ pc' = "overlapped"
  /\ UNCHANGED <<array, fragments, mem, io>>

\* Line 548: the next invocation advances the cursor.
AdvanceRange ==
  /\ pc = "overlapped"
  /\ ars' = get_next_range_global_tile_coords(ars)
  /\ pc' = "advanced"
  /\ UNCHANGED <<array, fragments, mem, io>>

NextRange == ApplyInitRange \/ OverlapAtCursor \/ AdvanceRange

SpecRange == InitRange /\ [][NextRange]_vars

\* The projection of the query range on the tile grid with floor division.
FloorLo(arr) == MaxOf((arr.range[1] - DomLo) \div Extent, 0)
FloorHi(arr) == MinOf((arr.range[2] - DomLo) \div Extent, NumTiles - 1)

\* C20: init_range_global_tile_coords projects the query range on the tile
\* rectangle [max(floor((q_lo - d_lo) / e), 0), min(floor((q_hi - d_lo) / e),
\* t_hi)] and leaves the cursor null exactly when this rectangle is empty,
\* also for the ranges that lie partly or wholly below the domain.
C20_FloorProjection ==
  pc = "init_done" =>
    IF FloorLo(array) <= FloorHi(array)
    THEN /\ ars.range_global_tile_domain_ = <<FloorLo(array), FloorHi(array)>>
         /\ ars.range_global_tile_coords_ = FloorLo(array)
    ELSE ars.range_global_tile_coords_ = NULL

(***************************************************************************)
(* The tile geometry in dim_num >= 2 dimensions: compute_max_overlap_range *)
(* (lines 752-805) and compute_max_overlap_fragment_cell_ranges (lines     *)
(* 648-750) on their own, for one tile of the cursor.  Every dimension has *)
(* GeoTiles tiles of GeoExtent cells from DomLo; a vector is a sequence    *)
(* over the dimensions, a range a sequence of <<low, high>> pairs.  The    *)
(* query range reaches at most one cell beyond the tile on either side.    *)
(* Here array is [dim_num, cell_order, range], ars holds the cursor, the   *)
(* overlap range and its type, and io the backbone ranges.                 *)
(***************************************************************************)
GeoExtent == 3
GeoTiles == 3
GeoDims == {2, 3}
CellOrders == {"ROW_MAJOR", "COLUMN_MAJOR"}

\* Lines 762-772.
MaxOverlapRange(arr, range_global_tile_coords) ==
  [i \in 1..arr.dim_num |->
     LET tile_coords == range_global_tile_coords[i] * GeoExtent + DomLo
     IN <<MaxOf(arr.range[i][1] - tile_coords, 0),
          MinOf(arr.range[i][2] - tile_coords, GeoExtent - 1)>>]

\* A classification that tests, for each cell order, the dimensions the
\* other cell order has to test.
MaxOverlapTypeSwapped(arr, max_overlap_range) ==
  LET partial(i) == \/ max_overlap_range[i][1] # 0
                    \/ max_overlap_range[i][2] # GeoExtent - 1
  IN IF \A i \in 1..arr.dim_num : ~partial(i) THEN "FULL"
     ELSE IF arr.cell_order = "COLUMN_MAJOR"
     THEN IF \E i \in 2..arr.dim_num : partial(i)
          THEN "PARTIAL_NON_CONTIG" ELSE "PARTIAL_CONTIG"
     ELSE IF \E i \in 1..(arr.dim_num - 1) : partial(i)
     THEN "PARTIAL_NON_CONTIG" ELSE "PARTIAL_CONTIG"

\* Lines 774-804.
MaxOverlapType(arr, max_overlap_range) ==
  LET partial(i) == \/ max_overlap_range[i][1] # 0
                    \/ max_overlap_range[i][2] # GeoExtent - 1
  IN IF \A i \in 1..arr.dim_num : ~partial(i) THEN "FULL"
     ELSE IF arr.cell_order = "ROW_MAJOR"
     THEN IF \E i \in 2..arr.dim_num : partial(i)
          THEN "PARTIAL_NON_CONTIG" ELSE "PARTIAL_CONTIG"
     ELSE IF arr.cell_order = "COLUMN_MAJOR"
     THEN IF \E i \in 1..(arr.dim_num - 1) : partial(i)
          THEN "PARTIAL_NON_CONTIG" ELSE "PARTIAL_CONTIG"
     ELSE "PARTIAL_CONTIG"

\* Lines 666-675.
GlobalMaxOverlapRange(a) ==
  [i \in DOMAIN a.max_overlap_range_ |->
     <<a.range_global_tile_coords_[i] * GeoExtent
         + a.max_overlap_range_[i][1] + DomLo,
       a.range_global_tile_coords_[i] * GeoExtent
         + a.max_overlap_range_[i][2] + DomLo>>]

\* Lines 706-711: the carry of the row-major advance, from dimension i
\* (counted from 1) towards the first dimension.
RECURSIVE RowCarry(_, _, _)
RowCarry(g, coords, i) ==
  IF i > 1 /\ coords[i] > g[i][2]
  THEN RowCarry(g, [coords EXCEPT ![i] = g[i][1], ![i - 1] = @ + 1], i - 1)
  ELSE coords

\* Lines 692-712: the row-major slabs.
RECURSIVE RowSlabs(_, _, _, _)
RowSlabs(g, coords, id, out) ==
  LET D == Len(g)
      cell_range ==
        [first |-> id,
         lo |-> [i \in 1..D |-> IF i < D THEN coords[i] ELSE g[D][1]],
         hi |-> [i \in 1..D |-> IF i < D THEN coords[i] ELSE g[D][2]]]
  IN IF coords[1] > g[1][2] THEN out
     ELSE RowSlabs(g, RowCarry(g, [coords EXCEPT ![D - 1] = @ + 1], D - 1),
                   id, Append(out, cell_range))

\* Lines 732-737: the carry of the column-major advance.
RECURSIVE ColumnCarry(_, _, _)
ColumnCarry(g, coords, i) ==
  IF i < Len(g) /\ coords[i] > g[i][2]
  THEN ColumnCarry(g, [coords EXCEPT ![i] = g[i][1], ![i + 1] = @ + 1], i + 1)
  ELSE coords

\* Lines 713-738: the column-major slabs.
RECURSIVE ColumnSlabs(_, _, _, _)
ColumnSlabs(g, coords, id, out) ==
  LET D == Len(g)
      cell_range ==
        [first |-> id,
         lo |-> [i \in 1..D |-> IF i > 1 THEN coords[i] ELSE g[1][1]],
         hi |-> [i \in 1..D |-> IF i > 1 THEN coords[i] ELSE g[1][2]]]
  IN IF coords[D] > g[D][2] THEN out
     ELSE ColumnSlabs(g, ColumnCarry(g, [coords EXCEPT ![2] = @ + 1], 2),
                      id, Append(out, cell_range))

\* A backbone that is one range from the low to the high corner of the
\* overlap, whatever its type.
MaxOverlapOneRange(arr, a) ==
  LET g == GlobalMaxOverlapRange(a)
  IN <<[first |-> a.max_overlap_i_, lo |-> [i \in DOMAIN g |-> g[i][1]],
        hi |-> [i \in DOMAIN g |-> g[i][2]]]>>

\* Lines 648-750.
MaxOverlapFragmentCellRanges(arr, a) ==
  LET g == GlobalMaxOverlapRange(a)
      lows == [i \in DOMAIN g |-> g[i][1]]
  IN IF a.max_overlap_type_ \in {"FULL", "PARTIAL_CONTIG"}
     THEN <<[first |-> a.max_overlap_i_, lo |-> lows,
             hi |-> [i \in DOMAIN g |-> g[i][2]]]>>
     ELSE IF arr.cell_order = "ROW_MAJOR"
     THEN RowSlabs(g, lows, a.max_overlap_i_, <<>>)
     ELSE ColumnSlabs(g, lows, a.max_overlap_i_, <<>>)

\* The ends of a query range on one dimension, around the tile at t.
GeoEnds(t) ==
  {q \in ((t * GeoExtent + DomLo - 1)..((t + 1) * GeoExtent + DomLo)) \X
         ((t * GeoExtent + DomLo - 1)..((t + 1) * GeoExtent + DomLo)) :
     /\ q[1] <= q[2]
     /\ q[2] >= t * GeoExtent + DomLo
     /\ q[1] <= (t + 1) * GeoExtent + DomLo - 1}

InitGeom ==
  /\ \E D \in GeoDims, order \in CellOrders :
       \E coords \in [1..D -> 1..(GeoTiles - 2)] :
         \E range \in [1..D -> UNION {GeoEnds(t) : t \in 1..(GeoTiles - 2)}] :
           /\ \A i \in 1..D : range[i] \in GeoEnds(coords[i])
           /\ array = [dim_num |-> D, cell_order |-> order, range |-> range]
           /\ ars = [range_global_tile_coords_ |-> coords,
                     max_overlap_range_ |-> NULL_RANGE,
                     max_overlap_type_ |-> "UNSET",
                     max_overlap_i_ |-> -1]
  /\ fragments = <<>>
  /\ mem = [live |-> {}, next |-> 1, dfree |-> FALSE]
  /\ io = [cell_ranges |-> <<>>]
  /\ pc = "tile"

\* Line 590: compute_max_overlap_range<T>().
ComputeOverlap ==
  /\ pc = "tile"
  /\ \E r \in {MaxOverlapRange(array, ars.range_global_tile_coords_)} :
       ars' = [ars EXCEPT !.max_overlap_range_ = r,
                          !.max_overlap_type_ = MaxOverlapType(array, r)]
  /\ pc' = "overlap"
  /\ UNCHANGED <<array, fragments, mem, io>>

\* Line 612: compute_max_overlap_fragment_cell_ranges<T>(unsorted).
ComputeBackbone ==
  /\ pc = "overlap"
  /\ io' = [cell_ranges |-> MaxOverlapFragmentCellRanges(array, ars)]
  /\ pc' = "backbone"
  /\ UNCHANGED <<array, ars, fragments, mem>>

NextGeom == ComputeOverlap \/ ComputeBackbone

SpecGeom == InitGeom /\ [][NextGeom]_vars

\* The position of the cell at the tile-relative coordinates c in the cell
\* order of the tile: the last dimension varies fastest in row-major order,
\* the first in column-major order.
RECURSIVE GeoCellPos(_, _, _)
GeoCellPos(arr, c, i) ==
  IF i > arr.dim_num THEN 0
  ELSE IF arr.cell_order = "ROW_MAJOR"
  THEN c[arr.dim_num + 1 - i] + GeoExtent * GeoCellPos(arr, c, i + 1)
  ELSE c[i] + GeoExtent * GeoCellPos(arr, c, i + 1)

\* The cells of the box r (a range over the dimensions).
BoxCells(r) ==
  {c \in [DOMAIN r -> Min({r[i][1] : i \in DOMAIN r})..
                      Max({r[i][2] : i \in DOMAIN r})] :
     \A i \in DOMAIN r : c[i] >= r[i][1] /\ c[i] <= r[i][2]}

\* The cells of the overlap are consecutive in the tile's cell order.
OneRun(arr, r) ==
  LET P == {GeoCellPos(arr, c, 1) : c \in BoxCells(r)}
  IN Max(P) - Min(P) + 1 = Cardinality(P)

\* C21: the overlap is FULL iff it spans [0, e - 1] on every dimension;
\* otherwise PARTIAL_CONTIG iff it does on every dimension but the first
\* (row-major) or the last (column-major); otherwise PARTIAL_NON_CONTIG;
\* the cells of a FULL or PARTIAL_CONTIG overlap are one run of the tile's
\* cell order.
C21_OverlapType ==
  pc \in {"overlap", "backbone"} =>
    LET r == ars.max_overlap_range_
        D == array.dim_num
        full(i) == r[i] = <<0, GeoExtent - 1>>
        type == IF \A i \in 1..D : full(i) THEN "FULL"
                ELSE IF \/ /\ array.cell_order = "ROW_MAJOR"
                           /\ \A i \in 2..D : full(i)
                        \/ /\ array.cell_order = "COLUMN_MAJOR"
                           /\ \A i \in 1..(D - 1) : full(i)
                THEN "PARTIAL_CONTIG"
                ELSE "PARTIAL_NON_CONTIG"
    IN /\ ars.max_overlap_type_ = type
       /\ type \in {"FULL", "PARTIAL_CONTIG"} => OneRun(array, r)

\* A column-major overlap in three dimensions that is partial on the last
\* dimension only was classified.
C21_PartialContig ==
  /\ pc = "overlap"
  /\ array.dim_num = 3
  /\ array.cell_order = "COLUMN_MAJOR"
  /\ ars.max_overlap_type_ = "PARTIAL_CONTIG"
  /\ ars.max_overlap_range_[3] = <<1, 1>>

\* C22: for every tile the cursor enumerates, max_overlap_range_ is the
\* query range relative to the tile origin, cut to the tile:
\* lo = max(q_lo - origin, 0), hi = min(q_hi - origin, e - 1), and
\* 0 <= lo <= hi <= e - 1: the overlap is never empty.
C22_OverlapNonEmpty ==
  pc = "overlapped" =>
    LET origin == TileLo(ars.range_global_tile_coords_)
        lo == ars.max_overlap_range_[1]
        hi == ars.max_overlap_range_[2]
    IN /\ lo = MaxOf(array.range[1] - origin, 0)
       /\ hi = MinOf(array.range[2] - origin, Extent - 1)
       /\ 0 <= lo /\ lo <= hi /\ hi <= Extent - 1

\* The product of the spans of the box g over the dimensions in S.
RECURSIVE SpanProduct(_, _)
SpanProduct(g, S) ==
  IF S = {} THEN 1
  ELSE LET i == CHOOSE j \in S : TRUE
       IN (g[i][2] - g[i][1] + 1) * SpanProduct(g, S \ {i})

\* The box of a backbone range and the position of a global cell in the
\* cell order of the cursor's tile.
RangeBox(r) == [i \in DOMAIN r.lo |-> <<r.lo[i], r.hi[i]>>]
InBox(c, b) == \A i \in DOMAIN b : c[i] >= b[i][1] /\ c[i] <= b[i][2]
GlobalCellPos(arr, a, c) ==
  GeoCellPos(arr,
             [i \in DOMAIN c |->
                c[i] - (a.range_global_tile_coords_[i] * GeoExtent + DomLo)],
             1)

\* C23: the backbone of a PARTIAL_NON_CONTIG overlap is one range per
\* cell-order slab: as many ranges as the product of the overlap's spans
\* over the slower dimensions, each fixing those dimensions and spanning
\* the overlap on the fastest one, in cell order, pairwise disjoint and
\* with the overlap as their union (every cell of the overlap is in exactly
\* one range, and every range is inside the overlap).
C23_OneRangePerSlab ==
  (pc = "backbone" /\ ars.max_overlap_type_ = "PARTIAL_NON_CONTIG") =>
    LET rs == io.cell_ranges
        g == GlobalMaxOverlapRange(ars)
        D == array.dim_num
        fast == IF array.cell_order = "ROW_MAJOR" THEN D ELSE 1
        slow == (1..D) \ {fast}
    IN /\ Len(rs) = SpanProduct(g, slow)
       /\ \A k \in 1..Len(rs) :
            /\ \A i \in slow : /\ rs[k].lo[i] = rs[k].hi[i]
                               /\ rs[k].lo[i] >= g[i][1]
                               /\ rs[k].lo[i] <= g[i][2]
            /\ rs[k].lo[fast] = g[fast][1]
            /\ rs[k].hi[fast] = g[fast][2]
       /\ \A k \in 1..(Len(rs) - 1) :
            GlobalCellPos(array, ars, rs[k].hi)
              < GlobalCellPos(array, ars, rs[k + 1].lo)
       /\ \A c \in BoxCells(g) :
            Cardinality({k \in 1..Len(rs) : InBox(c, RangeBox(rs[k]))}) = 1

\* A column-major overlap in three dimensions was cut in six slabs.
C23_SixSlabs ==
  /\ pc = "backbone"
  /\ ars.max_overlap_type_ = "PARTIAL_NON_CONTIG"
  /\ array.dim_num = 3
  /\ array.cell_order = "COLUMN_MAJOR"
  /\ Len(io.cell_ranges) = 6

\* C24: the backbone fragment of a tile is the highest-indexed fragment
\* that is positioned on the tile and has the maximum overlap, or -1; the
\* backbone range carries that id; the other input ranges come from exactly
\* the higher-indexed fragments positioned on the tile, one after another,
\* and from no lower-indexed fragment.
C24_BackboneFragment ==
  \A k \in 1..Len(ars.fragment_cell_pos_ranges_vec_) :
    LET plan == ars.fragment_cell_pos_ranges_vec_[k]
        in == plan.inputs
        on(f) == in.coords[f] # NULL /\ in.coords[f] = plan.tile
        S == {f \in FragIds(array) :
                /\ on(f)
                /\ max_overlap(array, f,
                               TileLo(plan.tile) + in.max_overlap_range[1],
                               TileLo(plan.tile) + in.max_overlap_range[2])}
        id == IF S = {} THEN -1 ELSE Max(S)
        adding == {f \in FragIds(array) :
                     /\ f > id
                     /\ on(f)
                     /\ array.fragments[f].cells \cap RangeCells(array, plan.tile) # {}}
    IN /\ in.max_overlap_i = id
       /\ Len(in.ids) >= 1
       /\ in.ids[1] = id
       /\ \A f \in FragIds(array) :
            Cardinality({j \in 2..Len(in.ids) : in.ids[j] = f})
              = IF f \in adding THEN 1 ELSE 0
       /\ \A j \in 2..Len(in.ids) : in.ids[j] \in FragIds(array)
       /\ \A j \in 2..(Len(in.ids) - 1) : in.ids[j] < in.ids[j + 1]

\* A tile was planned for which both fragments have the maximum overlap:
\* the backbone is fragment 1 and fragment 0 adds nothing.
C24_NewestBackbone ==
  /\ FragNum(array) = 2
  /\ Len(ars.fragment_cell_pos_ranges_vec_) > 0
  /\ LET in == ars.fragment_cell_pos_ranges_vec_[1].inputs
     IN /\ in.ids = <<1>>
        /\ in.coords[0] = ars.fragment_cell_pos_ranges_vec_[1].tile

\* A turn of the attribute loop for a fixed-sized attribute of a dense array.
DenseTurn ==
  /\ pc = "serving"
  /\ array.dense
  /\ array.attribute_ids[io.i] \notin array.var_size

\* C25: when a fragment reports overflow during a call of copy_cell_ranges
\* for an attribute, overflow_ of the attribute is set, the call is the
\* last one of the turn, the position of the attribute is unchanged,
\* tile_done_ of the attribute is false, no fragment receives tile_done,
\* and the turn returns OK with the size rewritten to the bytes copied.
C25_OverflowFrame ==
  [][DenseTurn =>
       LET attr == array.attribute_ids[io.i]
           cs == ars'.copies_
       IN \A k \in 1..Len(cs) :
            cs[k].reported =>
              /\ cs[k].attr = attr
              /\ cs[k].overflow
              /\ k = Len(cs)
              /\ cs[k].pos_after = cs[k].pos
              /\ ~cs[k].tile_done
              /\ cs[k].notified = {}
              /\ ars'.overflow_[attr]
              /\ ~ars'.tile_done_[attr]
              /\ io'.rc = "ok"
              /\ io'.buffer_sizes[io.i] =
                   CellSize * (Len(io'.out[attr]) - Len(io.out[attr]))]_vars

\* A turn finished a plan, copied cells of the next one and overflowed.
C25_OverflowAfterFinish ==
  /\ Len(ars.copies_) >= 2
  /\ ars.copies_[Len(ars.copies_)].reported
  /\ ars.copies_[Len(ars.copies_)].overflow
  /\ io.rc = "ok"
  /\ io.buffer_sizes[io.i - 1] = 2 * CellSize

\* C26: when a call of copy_cell_ranges finishes a plan without overflow,
\* the position of the attribute grows by exactly one, tile_done_ of the
\* attribute is true, and tile_done is sent to exactly the fragments whose
\* tile coordinates equal the tile of the plan just finished, also when
\* the attribute lags behind the tile cursor or the cursor is exhausted.
C26_TileDoneNotification ==
  \A k \in 1..Len(ars.copies_) :
    LET c == ars.copies_[k]
    IN ~c.overflow =>
         /\ c.pos_after = c.pos + 1
         /\ c.tile_done
         /\ c.notified = {f \in FragIds(array) :
                            c.coords[f] # NULL /\ c.coords[f] = c.tile}

\* C27: in one read of a dense array the requested attributes are served
\* one after another in the order of attribute_ids, each turn writing only
\* to its own attribute; after a turn the next attribute is served, also
\* when the turn overflowed, and the remaining attributes are skipped only
\* when the turn returned an error.
C27_AttributesInOrder ==
  [][(pc = "serving" /\ array.dense) =>
       /\ \A a \in Attrs :
            a # array.attribute_ids[io.i] => io'.out[a] = io.out[a]
       /\ io.i = Len(array.attribute_ids) => pc' # "serving"
       /\ io.i < Len(array.attribute_ids) =>
            \/ pc' = "serving" /\ io'.i = io.i + 1 /\ io'.rc = "ok"
            \/ pc' = "return" /\ io'.rc = "err"]_vars

\* C28: whenever the per-tile merge consults a fragment by id, the id is
\* one of 0..fragment_num-1; the ranges that carry id -1 are processed
\* without indexing the fragment list at -1.
C28_FragmentIdsValid ==
  \A k \in 1..Len(ars.fragment_cell_pos_ranges_vec_) :
    ars.fragment_cell_pos_ranges_vec_[k].consulted \subseteq FragIds(array)

\* C29: the per-tile merge loop terminates and ends with an empty queue
\* (the assertion pq.empty() of line 455 holds, or the error path has
\* emptied the queue), the coordinates returned by get_first_two_coords
\* advancing strictly in cell order.
C29_MergeEndsEmpty ==
  ars.merged_.status # "none" =>
    /\ ars.merged_.status \in {"ok", "err"}
    /\ ars.merged_.pq = {}

====
